---------------------------- MODULE Spec2Model ----------------------------
(***************************************************************************)
(* Adversarial variational optimisation on a toy Gaussian simulator        *)
(* (code/toy-gaussian.py): the training script as a state machine.         *)
(*                                                                         *)
(* Floating point parameters, gradients and losses are abstracted to the   *)
(* residues 0..Q-1 plus the absorbing value NaN.  The abstraction keeps    *)
(* what every function reads and writes (trial parameters, committed       *)
(* parameters, the seeded stream RandomState(i), numpy's global stream)    *)
(* and drops magnitudes.  Parameter structures (dicts of arrays) are one   *)
(* abstract value each.                                                    *)
(***************************************************************************)
EXTENDS Integers, Sequences, FiniteSets, TLC

\* ------------------------------------------------------------- bounds
\* Size of the abstract value domain.
Q == 7
\* Largest n_epochs explored (the script sets 300+1).
MaxEpochs == 2
\* Largest initial position of numpy's global stream (OS entropy).
MaxEntropy == 3
\* Iterations of each opt_critic.step(...) call (the script passes 100).
NSteps == 3

\* -------------------------------------------------- program constants
BatchSize == 64
DiagBatch == 5000
PlotDraws == 20000
Gamma == 5
NParams == 2
NHidden == 10
\* step_size=0.01 in units of 1/100
StepSizeHundredths == 1

\* A non-finite float (nan, inf): absorbing in every operation.
NaN == -1

VARIABLES
    pc,              \* statement of the script about to run
    i,               \* position of range(n_epochs): the loop variable i
    todo,            \* iterations left in the running opt_critic.step(n)
    n_epochs,        \* global n_epochs
    batch_size,      \* global batch_size
    step_size,       \* step_size given to both optimizers
    n_steps,         \* argument of opt_critic.step(...)
    np_random,       \* position of numpy's global (unseeded) stream
    params_critic,   \* global params_critic (committed CriticParams)
    params_proposal, \* global params_proposal (committed VariationalParams)
    opt_critic,      \* AdamOptimizer state: x (trial params), m, v, i
    opt_proposal,    \* AdamOptimizer state: x (trial params), m, v, i
    loss_d,          \* list loss_d (LossTrace)
    stdout,          \* what print(i, params_proposal) has written
    prev_run         \* output of an earlier execution of the script, if any

config == <<n_epochs, batch_size, step_size, n_steps>>
vars == <<pc, i, todo, n_epochs, batch_size, step_size, n_steps, np_random,
          params_critic, params_proposal, opt_critic, opt_proposal,
          loss_d, stdout, prev_run>>

\* ------------------------------------------------ abstract arithmetic
Norm(n) == ((n % Q) + Q) % Q
Add(a, b) == IF a = NaN \/ b = NaN THEN NaN ELSE Norm(a + b)
Sub(a, b) == IF a = NaN \/ b = NaN THEN NaN ELSE Norm(a - b)
Mul(a, b) == IF a = NaN \/ b = NaN THEN NaN ELSE Norm(a * b)

\* A draw from RandomState(seed), check_random_state(i) with an integer i.
Seeded(seed) == Norm(seed + 1)
\* A draw from numpy's global stream at position s.
GlobalDraw(s) == Norm(s)


\* ------------------------------------------------------ pure functions
\* simulator(theta, 1, random_state): loc + scale * noise.
simulator(theta, rnd) == Add(theta, rnd)

\* proposals.gaussian_draw(params, n, random_state): mu + sigma * noise.
gaussian_draw(params, rnd) == Add(params, rnd)

\* make_critic(1, 10): Glorot weights drawn from check_random_state(None),
\* numpy's global stream at position s; a uniform draw is not zero.
make_critic(s) == 1 + (s % (Q - 1))
\* Numbers the three glorot_uniform calls take from the global stream.
CriticInitDraws == NHidden * 1 + NHidden * NHidden + NHidden * 0

\* predict(X, params): the critic's score, affine in X up to leaky rectifiers.
predict(X, params) == Add(Mul(params, X), params)

\* Numbers one evaluation of loss_critic takes from the global stream:
\* gaussian_draw(params_proposal, batch_size // 2) is given no random_state.
LossDraws(bs) == (bs \div 2) * NParams

\* The batch of loss_critic: generated rows from an unseeded proposal draw and
\* a simulator run on rng = RandomState(seed); observed rows from a
\* permutation drawn on rng.
X_gen(pprop, seed, s) == simulator(gaussian_draw(pprop, GlobalDraw(s)), Seeded(seed))
X_obs(seed) == Seeded(seed + 1)

\* loss_critic(params_critic, i, batch_size=bs), reading the global
\* params_proposal (pprop) and the global stream at position s.
loss_critic(pcrit, seed, pprop, s) ==
    LET l_wgan == Sub(predict(X_gen(pprop, seed, s), pcrit), predict(X_obs(seed), pcrit))
        norms  == pcrit
        l_gp   == Mul(Sub(norms, 1), Sub(norms, 1))
    IN  Add(l_wgan, l_gp)

\* grad_loss_critic = ag.grad(loss_critic).  norms = sum(grad_Dx ** 2) ** 0.5
\* has no finite derivative where the input gradient of the critic vanishes.
grad_loss_critic(pcrit, seed, pprop, s) ==
    IF pcrit = NaN \/ pcrit = 0
    THEN NaN
    ELSE Add(Sub(X_gen(pprop, seed, s), X_obs(seed)), Mul(2, Sub(pcrit, 1)))

\* Numbers one evaluation of approx_grad_u takes from the global stream:
\* simulator(theta, 1) is given no random_state, once per theta.
GradUDraws(bs) == bs

\* approx_grad_u(params_proposal, i): thetas drawn on RandomState(seed), the
\* simulator on the global stream, scored by the global params_critic (pcrit).
approx_grad_u(pprop, seed, pcrit, s) ==
    LET theta  == gaussian_draw(pprop, Seeded(seed))
        x      == simulator(theta, GlobalDraw(s))
        dx     == predict(x, pcrit)
        grad_q == Sub(theta, pprop)
    IN  Add(Mul(Sub(0, dx), grad_q), Mul(Gamma, 1))

\* --------------------------------------------------- nn.AdamOptimizer
\* AdamOptimizer(grad, params, ...): trial parameters copied from params,
\* zero moments, zero step counter.
AdamOptimizer(params) == [x |-> params, m |-> 0, v |-> 0, i |-> 0]

\* One iteration of step(): moments take the gradient g in, the counter
\* advances, the trial parameters move by the bias-corrected update.
AdamStep(opt, g, ss) ==
    LET m == Add(opt.m, g)
        v == Add(opt.v, Mul(g, g))
        t == opt.i + 1
    IN  [x |-> Sub(opt.x, Mul(ss, Add(Add(m, v), t))), m |-> m, v |-> v, i |-> t]

\* reset(): zero counter and moments, trial parameters kept.
AdamReset(opt) == [opt EXCEPT !.m = 0, !.v = 0, !.i = 0]

\* move_to(params): the value written into the caller's structure.
AdamMoveTo(opt) == opt.x


\* ---------------------------------------------------------- the script
\* make_gaussian_proposal(n_params, mu=0.0)
make_gaussian_proposal == 0

\* Module level code up to the construction of both optimizers (lines 18-137)
\* with OS entropy e behind numpy's global stream.
Setup(e) ==
    /\ pc = "warmup"
    /\ i = 0
    /\ todo = n_steps
    /\ np_random = e + CriticInitDraws
    /\ params_proposal = make_gaussian_proposal
    /\ params_critic = make_critic(e)
    /\ opt_critic = AdamOptimizer(make_critic(e))
    /\ opt_proposal = AdamOptimizer(make_gaussian_proposal)
    /\ loss_d = <<>>
    /\ stdout = <<>>

\* The configuration the script hard-codes, for each n_epochs up to MaxEpochs.
Init ==
    /\ n_epochs \in 0..MaxEpochs
    /\ batch_size = BatchSize
    /\ step_size = StepSizeHundredths
    /\ n_steps = NSteps
    /\ prev_run = <<>>
    /\ \E e \in 0..MaxEntropy : Setup(e)

\* <<batch_size, step_size, n_steps>> as written, and with one of them edited.
Configurations ==
    { <<BatchSize, StepSizeHundredths, NSteps>>,
      <<BatchSize - 1, StepSizeHundredths, NSteps>>,
      <<BatchSize, 0, NSteps>>,
      <<BatchSize, -StepSizeHundredths, NSteps>>,
      <<BatchSize, StepSizeHundredths, 0>>,
      <<BatchSize, StepSizeHundredths, -1>> }

\* The same script with one global or optimizer argument edited.
InitConfig ==
    /\ n_epochs \in 0..MaxEpochs
    /\ \E c \in Configurations :
          batch_size = c[1] /\ step_size = c[2] /\ n_steps = c[3]
    /\ prev_run = <<>>
    /\ \E e \in 0..MaxEntropy : Setup(e)

\* One iteration of the loop inside opt_critic.step(n); the call returns to
\* statement `next` after the last one (at once when n <= 0).
CriticIteration(next) ==
    IF todo > 0
    THEN /\ opt_critic' = AdamStep(opt_critic,
                                   grad_loss_critic(opt_critic.x, opt_critic.i,
                                                    params_proposal, np_random),
                                   step_size)
         /\ np_random' = np_random + LossDraws(batch_size)
         /\ todo' = todo - 1
         /\ pc' = IF todo = 1 THEN next ELSE pc
    ELSE /\ pc' = next
         /\ UNCHANGED <<opt_critic, np_random, todo>>

\* opt_critic.step(100)                                          (line 139)
WarmupStep ==
    /\ pc = "warmup"
    /\ CriticIteration("commit_warmup")
    /\ UNCHANGED <<i, config, params_critic, params_proposal, opt_proposal,
                   loss_d, stdout, prev_run>>

\* Mutant of WarmupCommit: the warmed-up critic is never committed.
WarmupCommit_Missing ==
    /\ pc = "commit_warmup"
    /\ pc' = "loop"
    /\ UNCHANGED <<i, todo, config, np_random, params_critic, params_proposal,
                   opt_critic, opt_proposal, loss_d, stdout, prev_run>>

\* opt_critic.move_to(params_critic)                             (line 140)
WarmupCommit ==
    /\ pc = "commit_warmup"
    /\ params_critic' = AdamMoveTo(opt_critic)
    /\ pc' = "loop"
    /\ UNCHANGED <<i, todo, config, np_random, params_proposal, opt_critic,
                   opt_proposal, loss_d, stdout, prev_run>>

\* Mutant of LoopHead: the loop stops one iteration short.
LoopHead_StopsEarly ==
    /\ pc = "loop"
    /\ IF i < n_epochs - 1
       THEN /\ stdout' = Append(stdout, <<i, params_proposal>>)
            /\ pc' = "update_proposal"
       ELSE /\ pc' = "done"
            /\ UNCHANGED stdout
    /\ UNCHANGED <<i, todo, config, np_random, params_critic, params_proposal,
                   opt_critic, opt_proposal, loss_d, prev_run>>

\* for i in range(n_epochs): print(i, params_proposal)      (lines 144-145)
LoopHead ==
    /\ pc = "loop"
    /\ IF i < n_epochs
       THEN /\ stdout' = Append(stdout, <<i, params_proposal>>)
            /\ pc' = "update_proposal"
       ELSE /\ pc' = "done"
            /\ UNCHANGED stdout
    /\ UNCHANGED <<i, todo, config, np_random, params_critic, params_proposal,
                   opt_critic, opt_proposal, loss_d, prev_run>>

\* Mutant of UpdateProposal: the step writes through to the caller's
\* params_proposal instead of waiting for move_to.
UpdateProposal_InPlace ==
    /\ pc = "update_proposal"
    /\ opt_proposal' = AdamStep(opt_proposal,
                                approx_grad_u(opt_proposal.x, opt_proposal.i,
                                              params_critic, np_random),
                                step_size)
    /\ params_proposal' = opt_proposal'.x
    /\ np_random' = np_random + GradUDraws(batch_size)
    /\ pc' = "commit_proposal"
    /\ UNCHANGED <<i, todo, config, params_critic, opt_critic,
                   loss_d, stdout, prev_run>>

\* opt_proposal.step(1)                                          (line 148)
UpdateProposal ==
    /\ pc = "update_proposal"
    /\ opt_proposal' = AdamStep(opt_proposal,
                                approx_grad_u(opt_proposal.x, opt_proposal.i,
                                              params_critic, np_random),
                                step_size)
    /\ np_random' = np_random + GradUDraws(batch_size)
    /\ pc' = "commit_proposal"
    /\ UNCHANGED <<i, todo, config, params_critic, params_proposal, opt_critic,
                   loss_d, stdout, prev_run>>

\* Mutant of CommitProposal: the proposal step is never committed.
CommitProposal_Missing ==
    /\ pc = "commit_proposal"
    /\ pc' = "reset_critic"
    /\ UNCHANGED <<i, todo, config, np_random, params_critic, params_proposal,
                   opt_critic, opt_proposal, loss_d, stdout, prev_run>>

\* opt_proposal.move_to(params_proposal)                         (line 149)
CommitProposal ==
    /\ pc = "commit_proposal"
    /\ params_proposal' = AdamMoveTo(opt_proposal)
    /\ pc' = "reset_critic"
    /\ UNCHANGED <<i, todo, config, np_random, params_critic, opt_critic,
                   opt_proposal, loss_d, stdout, prev_run>>

\* Mutant of ResetCritic: the script goes on to retrain without the reset.
ResetCritic_Missing ==
    /\ pc = "reset_critic"
    /\ todo' = n_steps
    /\ pc' = "retrain"
    /\ UNCHANGED <<i, config, np_random, params_critic, params_proposal,
                   opt_critic, opt_proposal, loss_d, stdout, prev_run>>

\* opt_critic.reset()                                            (line 152)
ResetCritic ==
    /\ pc = "reset_critic"
    /\ opt_critic' = AdamReset(opt_critic)
    /\ todo' = n_steps
    /\ pc' = "retrain"
    /\ UNCHANGED <<i, config, np_random, params_critic, params_proposal,
                   opt_proposal, loss_d, stdout, prev_run>>

\* opt_critic.step(100)                                          (line 153)
RetrainStep ==
    /\ pc = "retrain"
    /\ CriticIteration("commit_critic")
    /\ UNCHANGED <<i, config, params_critic, params_proposal, opt_proposal,
                   loss_d, stdout, prev_run>>

\* opt_critic.move_to(params_critic)                             (line 154)
CommitCritic ==
    /\ pc = "commit_critic"
    /\ params_critic' = AdamMoveTo(opt_critic)
    /\ pc' = "diagnostic"
    /\ UNCHANGED <<i, todo, config, np_random, params_proposal, opt_critic,
                   opt_proposal, loss_d, stdout, prev_run>>

\* Mutant of RecordDiagnostic: the trace keeps only the latest value.
RecordDiagnostic_Overwrites ==
    /\ pc = "diagnostic"
    /\ loss_d' = <<Sub(0, loss_critic(params_critic, i, params_proposal, np_random))>>
    /\ np_random' = np_random + LossDraws(DiagBatch)
    /\ pc' = "plot"
    /\ UNCHANGED <<i, todo, config, params_critic, params_proposal, opt_critic,
                   opt_proposal, stdout, prev_run>>

\* loss_d.append(-loss_critic(params_critic, i, batch_size=5000)) (line 156)
RecordDiagnostic ==
    /\ pc = "diagnostic"
    /\ loss_d' = Append(loss_d,
                        Sub(0, loss_critic(params_critic, i, params_proposal, np_random)))
    /\ np_random' = np_random + LossDraws(DiagBatch)
    /\ pc' = "plot"
    /\ UNCHANGED <<i, todo, config, params_critic, params_proposal, opt_critic,
                   opt_proposal, stdout, prev_run>>

\* if make_plots: ... gaussian_draw(params_proposal, 20000) and 20000 runs of
\* simulator(theta, 1), none given a random_state; then the next i.
\*                                                          (lines 159-196)
Plot ==
    /\ pc = "plot"
    /\ np_random' = np_random + PlotDraws * NParams + PlotDraws
    /\ i' = i + 1
    /\ pc' = "loop"
    /\ UNCHANGED <<todo, config, params_critic, params_proposal, opt_critic,
                   opt_proposal, loss_d, stdout, prev_run>>

\* A second execution of the script, same configuration, fresh OS entropy;
\* what the first execution produced is kept for comparison.
Rerun ==
    /\ pc = "done"
    /\ prev_run = <<>>
    /\ prev_run' = <<[stdout |-> stdout, loss_d |-> loss_d,
                      params_critic |-> params_critic,
                      params_proposal |-> params_proposal]>>
    /\ \E e \in 0..MaxEntropy :
          /\ pc' = "warmup"
          /\ i' = 0
          /\ todo' = n_steps
          /\ np_random' = e + CriticInitDraws
          /\ params_proposal' = make_gaussian_proposal
          /\ params_critic' = make_critic(e)
          /\ opt_critic' = AdamOptimizer(make_critic(e))
          /\ opt_proposal' = AdamOptimizer(make_gaussian_proposal)
          /\ loss_d' = <<>>
          /\ stdout' = <<>>
    /\ UNCHANGED config

Next ==
    \/ WarmupStep
    \/ WarmupCommit
    \/ LoopHead
    \/ UpdateProposal
    \/ CommitProposal
    \/ ResetCritic
    \/ RetrainStep
    \/ CommitCritic
    \/ RecordDiagnostic
    \/ Plot

NextTwoRuns == Next \/ Rerun

\* One execution of the script as written.
Spec == Init /\ [][Next]_vars
\* The interpreter keeps executing statements until the script ends.
SpecFair == Init /\ [][Next]_vars /\ WF_vars(Next)
\* Two executions of the script, one after the other.
SpecTwoRuns == Init /\ [][NextTwoRuns]_vars
\* One execution under any of the edited configurations.
SpecConfig == InitConfig /\ [][Next]_vars


\* ------------------------------------------------------------- claims

\* The order of the statements: which statement may follow which.
PhaseOrder ==
    { <<"warmup", "warmup">>, <<"warmup", "commit_warmup">>,
      <<"commit_warmup", "loop">>,
      <<"loop", "update_proposal">>, <<"loop", "done">>,
      <<"update_proposal", "commit_proposal">>,
      <<"commit_proposal", "reset_critic">>,
      <<"reset_critic", "retrain">>,
      <<"retrain", "retrain">>, <<"retrain", "commit_critic">>,
      <<"commit_critic", "diagnostic">>,
      <<"diagnostic", "plot">>,
      <<"plot", "loop">> }

\* C1: the phases run in the order warmup (critic steps, then commit), then
\* per outer iteration i < n_epochs: one proposal step, its commit, the critic
\* reset, the critic steps, their commit, the diagnostic.  A critic commit
\* follows only a step call that ran all its n_steps iterations, the proposal
\* optimizer steps exactly once per iteration, and it never steps before the
\* critic optimizer has run a whole phase and committed it.
C1_PhaseOrder ==
    [][ /\ <<pc, pc'>> \in PhaseOrder
        /\ (pc = "loop" /\ pc' = "update_proposal") => i < n_epochs
        /\ (pc = "loop" /\ pc' = "done") => i = n_epochs
        /\ opt_critic'.i > opt_critic.i => pc \in {"warmup", "retrain"}
        /\ (pc' \in {"commit_warmup", "commit_critic"}) => opt_critic'.i = n_steps
        /\ opt_proposal' # opt_proposal =>
              /\ pc = "update_proposal"
              /\ opt_proposal'.i = i + 1
              /\ opt_critic.i = n_steps
              /\ params_critic = opt_critic.x
      ]_vars

\* C1 witness: a run of MaxEpochs outer iterations has gone through every
\* phase and ended.
C1_Witness ==
    pc = "done" /\ n_epochs >= 2 /\ opt_proposal.i = n_epochs /\ Len(loss_d) = n_epochs

\* C2: params_critic changes only at a critic move_to and params_proposal only
\* at the proposal move_to; a move_to leaves the optimizer as it was and the
\* committed structure equal to the optimizer's trial parameters.
C2_CommitOnly ==
    [][ /\ params_critic' # params_critic => pc \in {"commit_warmup", "commit_critic"}
        /\ params_proposal' # params_proposal => pc = "commit_proposal"
        /\ pc \in {"commit_warmup", "commit_critic"} =>
              /\ params_critic' = opt_critic'.x
              /\ UNCHANGED <<opt_critic, opt_proposal, params_proposal>>
        /\ pc = "commit_proposal" =>
              /\ params_proposal' = opt_proposal'.x
              /\ UNCHANGED <<opt_critic, opt_proposal, params_critic>>
      ]_vars

\* C2 witness: both structures have been overwritten by a commit with values
\* other than the ones they were created with.
C2_Witness ==
    /\ pc = "diagnostic"
    /\ params_critic # NaN /\ params_proposal # NaN
    /\ params_proposal # make_gaussian_proposal
    /\ params_critic = opt_critic.x /\ params_proposal = opt_proposal.x
    /\ stdout[Len(stdout)][2] # params_proposal

Completed == IF pc = "plot" THEN i + 1 ELSE i

\* C4: two executions of the script under the same seeds and configuration
\* print the same sequence of params_proposal and end with the same loss_d,
\* params_critic and params_proposal.
C4_Reproducible ==
    (pc = "done" /\ prev_run # <<>>) =>
        prev_run[1] = [stdout |-> stdout, loss_d |-> loss_d,
                       params_critic |-> params_critic,
                       params_proposal |-> params_proposal]

\* The proposal optimizer after the step of the next outer iteration, were
\* the global stream at position s when the plotting starts.
NextProposalUpdate(s) ==
    AdamStep(opt_proposal,
             approx_grad_u(opt_proposal.x, opt_proposal.i, params_critic,
                           s + PlotDraws * NParams + PlotDraws),
             step_size)

\* C5: evaluating the diagnostic changes no optimizer and no committed
\* structure, and the proposal update of the next outer iteration is the one
\* that would have been made had the diagnostic not been evaluated.
C5_NoFeedback ==
    [][ pc = "diagnostic" =>
          /\ UNCHANGED <<opt_critic, opt_proposal, params_critic, params_proposal>>
          /\ (i + 1 < n_epochs =>
                NextProposalUpdate(np_random') = NextProposalUpdate(np_random))
      ]_vars

\* A configuration the design rejects.
InvalidConfig == batch_size % 2 = 1 \/ step_size <= 0 \/ n_steps <= 0

\* C6: under an invalid configuration the run goes no further than setup: no
\* optimizer has stepped and nothing has been committed.
C6_RejectedAtSetup ==
    InvalidConfig =>
        /\ pc = "warmup"
        /\ opt_critic.i = 0 /\ opt_proposal.i = 0
        /\ params_critic = opt_critic.x /\ params_proposal = make_gaussian_proposal

\* An optimizer holds a non-finite value: a step of it has failed.
Failed(opt) == opt.x = NaN \/ opt.m = NaN \/ opt.v = NaN

\* C7: once a step has failed no further statement of the loop executes, and
\* no non-finite value is committed.
C7_AbortsOnNonFinite ==
    [][ /\ ~Failed(opt_critic) /\ ~Failed(opt_proposal)
        /\ params_critic' # NaN /\ params_proposal' # NaN
      ]_vars

\* C8: the loop ends, and it ends after exactly n_epochs outer iterations.
C8_Terminates ==
    /\ <>(pc = "done")
    /\ [](pc = "done" => i = n_epochs /\ Len(loss_d) = n_epochs
                         /\ Len(stdout) = n_epochs /\ opt_proposal.i = n_epochs)
    /\ [](Completed <= n_epochs)

\* C8 witness: a run of several outer iterations has ended.
C8_Witness == pc = "done" /\ n_epochs >= 2 /\ i = n_epochs

\* C9: loss_d holds one value per completed outer iteration, and a step
\* either leaves it as it is or appends one value to it.
C9_AppendOnly ==
    [][ /\ Len(loss_d) = Completed
        /\ Len(loss_d') = Completed'
        /\ \/ loss_d' = loss_d
           \/ /\ pc = "diagnostic"
              /\ Len(loss_d') = Len(loss_d) + 1
              /\ SubSeq(loss_d', 1, Len(loss_d)) = loss_d
      ]_vars

\* C9 witness: a second value has been appended behind a first that differs
\* from it.
C9_Witness == pc = "plot" /\ Len(loss_d) = 2 /\ loss_d[1] # loss_d[2]

\* C10: when approx_grad_u is about to run, params_critic holds the trial
\* parameters of a critic optimizer that has run its whole phase; when
\* loss_critic is about to run in a critic step, params_proposal holds the
\* proposal optimizer's trial parameters.
C10_InSync ==
    /\ pc = "update_proposal" =>
          params_critic = opt_critic.x /\ opt_critic.i = n_steps
    /\ (pc \in {"warmup", "retrain"} /\ todo > 0) =>
          params_proposal = opt_proposal.x

\* C10 witness: the proposal is about to step in the second outer iteration
\* against a critic that was retrained, on a proposal that had moved, to
\* parameters other than the warmed-up ones it held at the first step.
C10_Witness ==
    /\ pc = "update_proposal" /\ i = 1
    /\ params_proposal # make_gaussian_proposal /\ params_proposal # NaN
    /\ params_critic # NaN /\ opt_critic.m # 0

=============================================================================
